---- MODULE Spec2Model ----
(***************************************************************************)
(* Model of chunk_iter (src/src/lib.rs): the Chunks<T, I, N> adapter, its  *)
(* staging buffer of N MaybeUninit slots, the needs_dropping counter, the  *)
(* wrapped iterator, and the operations next, size_hint, len,              *)
(* currently_stored, into_stored and Drop::drop.                           *)
(*                                                                         *)
(* next() is modelled statement by statement (pc walks through its body in *)
(* program order): no other operation can run while pc # "idle", so a call *)
(* always runs to its return, to its early return (the ? operator) or to a *)
(* panic of the source, which unwinds the stack and tears the adapter down.*)
(*                                                                         *)
(* Items are identified by their position in the source (distinct          *)
(* positive integers), so that each constructed value can be followed      *)
(* through its hand-out or destruction.  Slots are indexed from 0 as in    *)
(* the source.  An Option<usize> or Option<T> is a sequence of length 0 or *)
(* 1.                                                                      *)
(***************************************************************************)
EXTENDS Integers, Sequences, FiniteSets

\* Bounds of the model.
MaxN == 3        \* chunk sizes 0..MaxN
MaxLen == 5      \* the source answers at most MaxLen pulls before it is exhausted for good
MaxCalls == 6    \* number of next() calls in one behaviour

\* A slot that was never written: MaybeUninit::uninit().
Uninit == -1
\* The source yields nothing: iterator.next() returned None.
NoItem == 0

VARIABLES
  N,                \* the const generic chunk size
  buffer,           \* [0..N-1 -> item or Uninit]: the bits of the N slots
  needs_dropping,   \* the live count
  iterator,         \* what the wrapped source will still answer, pull by pull
  pc,               \* position inside next(): "idle" between operations
  x,                \* index of the slot the fill loop is at
  item,             \* the item pulled and not yet written to its slot
  phase,            \* "live", "unwinding", "consumed" (into_stored), "dropped"
  ret,              \* what the most recent operation returned
  stored,           \* the array into_stored returned
  reads,            \* slot indices the most recent operation read
  handed,           \* item -> number of times it was handed to the caller
  destroyed,        \* item -> number of times the adapter destroyed it
  source_finalized, \* number of times the wrapped source was dropped
  drop_runs,        \* number of times Drop::drop ran
  chunks_out,       \* the chunks returned so far, in order
  pulled,           \* the items pulled from the source so far, in order
  nones,            \* number of next() calls that returned None
  calls,            \* number of next() calls made
  last_next,        \* outcome of the most recent next() call
  src0,             \* the source as it was when the adapter was created
  ub,               \* a slot that holds no value was read as a T
  entry_count,      \* needs_dropping when the most recent next() call was entered
  call_pulls,       \* pulls the most recent next() call got an answer to
  call_items,       \* items the most recent next() call pulled
  prev_next,        \* outcome of the next() call before the most recent one
  none_view,        \* the live slots when the current run of None returns began
  forecast          \* the bounds most recently reported by size_hint or len

vars == <<N, buffer, needs_dropping, iterator, pc, x, item, phase, ret, stored,
          reads, handed, destroyed, source_finalized, drop_runs, chunks_out,
          pulled, nones, calls, last_next, src0, ub, entry_count, call_pulls,
          call_items, prev_next, none_view, forecast>>

\* What the adapter itself consists of (struct Chunks) plus the loop position.
chunker == <<N, buffer, needs_dropping, iterator, pc, x, item, phase>>
\* The ownership ledger and the history of the calls.
ledger == <<handed, destroyed, source_finalized, drop_runs, ub>>
history == <<chunks_out, pulled, nones, calls, last_next, src0, entry_count,
             call_pulls, call_items, prev_next, none_view>>

Items == 1..MaxLen

\* The sources: each pull is answered by an item or by nothing; a source may
\* yield items again after having yielded nothing (it need not be fused).
\* After its last answer the source yields nothing for ever.
SourceOf(f) == [i \in DOMAIN f |-> IF f[i] THEN i ELSE NoItem]
Sources == {SourceOf(f) : f \in UNION {[1..l -> BOOLEAN] : l \in 0..MaxLen}}

\* self.iterator.next()
SourceNext(it) ==
  IF it = <<>> THEN [item |-> NoItem, rest |-> <<>>]
  ELSE [item |-> Head(it), rest |-> Tail(it)]

\* Number of items the source yields before it next yields nothing.
RECURSIVE Remaining(_)
Remaining(it) ==
  IF it = <<>> \/ Head(it) = NoItem THEN 0 ELSE 1 + Remaining(Tail(it))

\* The items the source yields before it next yields nothing.
RECURSIVE Run(_)
Run(it) ==
  IF it = <<>> \/ Head(it) = NoItem THEN <<>> ELSE <<Head(it)>> \o Run(Tail(it))

\* A source is fused when it never yields an item after having yielded nothing.
Fused(it) == \A i, j \in DOMAIN it : (i < j /\ it[i] = NoItem) => it[j] = NoItem

\* self.iterator.size_hint(): any bounds that are correct for the source.
SourceHints(it) ==
  {[lower |-> l, upper |-> u] :
     l \in 0..Remaining(it),
     u \in {<<>>} \cup {<<k>> : k \in Remaining(it)..MaxLen}}

\* The first k slots, in slot order: &self.buffer[..k]
Slice(buf, k) == [i \in 1..k |-> buf[i - 1]]

\* Number of occurrences of v in a sequence.
Count(v, s) == Cardinality({i \in DOMAIN s : s[i] = v})

\* Add one to the ledger entry of every item of vals.
Book(led, vals) == [v \in DOMAIN led |-> led[v] + Count(v, vals)]

\* Reading a slot that holds no value as a T.
ReadsUninit(vals) == \E i \in DOMAIN vals : vals[i] = Uninit

Ret(op, kind, val, src) == [op |-> op, kind |-> kind, val |-> val, src |-> src]

----------------------------------------------------------------------------
\* ChunkIter::chunks: the state after construction.
Init ==
  /\ N \in 0..MaxN
  /\ buffer = [i \in 0..(N - 1) |-> Uninit]
  /\ src0 \in Sources
  /\ iterator = src0
  /\ needs_dropping = 0
  /\ pc = "idle"
  /\ x = 0
  /\ item = NoItem
  /\ phase = "live"
  /\ ret = Ret("chunks", "value", <<>>, <<>>)
  /\ stored = <<>>
  /\ reads = {}
  /\ handed = [v \in Items |-> 0]
  /\ destroyed = [v \in Items |-> 0]
  /\ source_finalized = 0
  /\ drop_runs = 0
  /\ chunks_out = <<>>
  /\ pulled = <<>>
  /\ nones = 0
  /\ calls = 0
  /\ last_next = "init"
  /\ ub = FALSE
  /\ entry_count = 0
  /\ call_pulls = 0
  /\ call_items = 0
  /\ prev_next = "init"
  /\ none_view = <<>>
  /\ forecast = [op |-> "none", val |-> <<>>, chunks |-> 0, nones |-> 0]

----------------------------------------------------------------------------
\* Chunks::next

\* Variant: the loop stops one slot early.
LoopHeadShort(i) == IF i + 1 < N THEN "pull" ELSE "reset"
\* Variant: the loop runs over one slot too many (an inclusive range).
LoopHeadInclusive(i) == IF i <= N THEN "pull" ELSE "reset"

\* The head of `for x in buffer[needs_dropping..]`: slot i is next, or the
\* slice is used up.
LoopHead(i) == IF i < N THEN "pull" ELSE "reset"

\* Variant: the fill starts at slot 0 whatever the live count is.
NextCallFromZero ==
  /\ phase = "live" /\ pc = "idle"
  /\ calls < MaxCalls
  /\ calls' = calls + 1
  /\ x' = 0
  /\ pc' = LoopHead(0)
  /\ last_next' = "running"
  /\ prev_next' = last_next
  /\ entry_count' = needs_dropping
  /\ call_pulls' = 0
  /\ call_items' = 0
  /\ reads' = {}
  /\ UNCHANGED <<N, buffer, needs_dropping, iterator, item, phase, ret, stored>>
  /\ UNCHANGED ledger
  /\ UNCHANGED <<chunks_out, pulled, nones, src0, none_view, forecast>>

\* next() is entered: the slice buffer[needs_dropping..] is taken.
NextCall ==
  /\ phase = "live" /\ pc = "idle"
  /\ calls < MaxCalls
  /\ calls' = calls + 1
  /\ x' = needs_dropping
  /\ pc' = LoopHead(needs_dropping)
  /\ last_next' = "running"
  /\ prev_next' = last_next
  /\ entry_count' = needs_dropping
  /\ call_pulls' = 0
  /\ call_items' = 0
  /\ reads' = {}
  /\ UNCHANGED <<N, buffer, needs_dropping, iterator, item, phase, ret, stored>>
  /\ UNCHANGED ledger
  /\ UNCHANGED <<chunks_out, pulled, nones, src0, none_view, forecast>>

\* Variant: the counter is advanced before the pull is looked at.
NextPullCountsFirst ==
  /\ pc = "pull"
  /\ needs_dropping' = needs_dropping + 1
  /\ LET r == SourceNext(iterator) IN
       /\ iterator' = r.rest
       /\ IF r.item = NoItem
            THEN /\ pc' = "idle"
                 /\ ret' = Ret("next", "none", <<>>, <<>>)
                 /\ nones' = nones + 1
                 /\ last_next' = "none"
                 /\ none_view' = (IF prev_next = "none" THEN none_view
                                  ELSE Slice(buffer, needs_dropping))
                 /\ UNCHANGED <<item, pulled, buffer, x, call_items>>
            ELSE /\ pc' = LoopHead(x + 1)
                 /\ x' = x + 1
                 /\ buffer' = [buffer EXCEPT ![x] = r.item]
                 /\ pulled' = Append(pulled, r.item)
                 /\ call_items' = call_items + 1
                 /\ UNCHANGED <<item, ret, nones, last_next, none_view>>
  /\ call_pulls' = call_pulls + 1
  /\ UNCHANGED <<N, phase, stored, reads>>
  /\ UNCHANGED ledger
  /\ UNCHANGED <<chunks_out, calls, src0, entry_count, prev_next, forecast>>

\* Variant: the live count is cleared when the source yields nothing.
NextPullClearsOnNone ==
  /\ pc = "pull"
  /\ LET r == SourceNext(iterator) IN
       /\ iterator' = r.rest
       /\ IF r.item = NoItem
            THEN /\ pc' = "idle"
                 /\ needs_dropping' = 0
                 /\ ret' = Ret("next", "none", <<>>, <<>>)
                 /\ nones' = nones + 1
                 /\ last_next' = "none"
                 /\ none_view' = (IF prev_next = "none" THEN none_view
                                  ELSE Slice(buffer, needs_dropping))
                 /\ UNCHANGED <<item, pulled, call_items>>
            ELSE /\ pc' = "write"
                 /\ item' = r.item
                 /\ pulled' = Append(pulled, r.item)
                 /\ call_items' = call_items + 1
                 /\ UNCHANGED <<needs_dropping, ret, nones, last_next, none_view>>
  /\ call_pulls' = call_pulls + 1
  /\ UNCHANGED <<N, buffer, x, phase, stored, reads>>
  /\ UNCHANGED ledger
  /\ UNCHANGED <<chunks_out, calls, src0, entry_count, prev_next, forecast>>

\* self.iterator.next()? : an item is pulled, or next() returns None at once.
NextPull ==
  /\ pc = "pull"
  /\ LET r == SourceNext(iterator) IN
       /\ iterator' = r.rest
       /\ IF r.item = NoItem
            THEN /\ pc' = "idle"
                 /\ ret' = Ret("next", "none", <<>>, <<>>)
                 /\ nones' = nones + 1
                 /\ last_next' = "none"
                 /\ none_view' = (IF prev_next = "none" THEN none_view
                                  ELSE Slice(buffer, needs_dropping))
                 /\ UNCHANGED <<item, pulled, call_items>>
            ELSE /\ pc' = "write"
                 /\ item' = r.item
                 /\ pulled' = Append(pulled, r.item)
                 /\ call_items' = call_items + 1
                 /\ UNCHANGED <<ret, nones, last_next, none_view>>
  /\ call_pulls' = call_pulls + 1
  /\ UNCHANGED <<N, buffer, needs_dropping, x, phase, stored, reads>>
  /\ UNCHANGED ledger
  /\ UNCHANGED <<chunks_out, calls, src0, entry_count, prev_next, forecast>>

\* self.iterator.next() panics: next() is left by unwinding, nothing was
\* pulled, and the adapter is torn down by the unwinding.
NextPullPanic ==
  /\ pc = "pull"
  /\ pc' = "idle"
  /\ phase' = "unwinding"
  /\ ret' = Ret("next", "source_panic", <<>>, <<>>)
  /\ last_next' = "panic"
  /\ UNCHANGED <<N, buffer, needs_dropping, iterator, x, item, stored, reads>>
  /\ UNCHANGED ledger
  /\ UNCHANGED <<chunks_out, pulled, nones, calls, src0, entry_count,
                 call_pulls, call_items, prev_next, none_view, forecast>>

\* Variant: the item is written to the first slot instead of slot x.
NextWriteSlotZero ==
  /\ pc = "write"
  /\ buffer' = [buffer EXCEPT ![0] = item]
  /\ pc' = "inc"
  /\ UNCHANGED <<N, needs_dropping, iterator, x, item, phase, ret, stored, reads>>
  /\ UNCHANGED ledger
  /\ UNCHANGED history
  /\ UNCHANGED forecast

\* *x = MaybeUninit::new(item)
NextWrite ==
  /\ pc = "write"
  /\ buffer' = [buffer EXCEPT ![x] = item]
  /\ pc' = "inc"
  /\ UNCHANGED <<N, needs_dropping, iterator, x, item, phase, ret, stored, reads>>
  /\ UNCHANGED ledger
  /\ UNCHANGED history
  /\ UNCHANGED forecast

\* self.needs_dropping += 1, and the loop goes to its next slot.
NextInc ==
  /\ pc = "inc"
  /\ needs_dropping' = needs_dropping + 1
  /\ x' = x + 1
  /\ pc' = LoopHead(x + 1)
  /\ UNCHANGED <<N, buffer, iterator, item, phase, ret, stored, reads>>
  /\ UNCHANGED ledger
  /\ UNCHANGED history
  /\ UNCHANGED forecast

\* Variant: the counter is not reset before the hand-out.
NextResetForgets ==
  /\ pc = "reset"
  /\ pc' = "ret"
  /\ UNCHANGED <<N, buffer, needs_dropping, iterator, x, item, phase, ret, stored, reads>>
  /\ UNCHANGED ledger
  /\ UNCHANGED history
  /\ UNCHANGED forecast

\* self.needs_dropping = 0
NextReset ==
  /\ pc = "reset"
  /\ needs_dropping' = 0
  /\ pc' = "ret"
  /\ UNCHANGED <<N, buffer, iterator, x, item, phase, ret, stored, reads>>
  /\ UNCHANGED ledger
  /\ UNCHANGED history
  /\ UNCHANGED forecast

\* Some(transmute_copy(&self.buffer)): the bits of all N slots are copied
\* out as a [T; N]; the slots keep their bits.
NextReturn ==
  /\ pc = "ret"
  /\ LET chunk == Slice(buffer, N) IN
       /\ ret' = Ret("next", "some", chunk, <<>>)
       /\ chunks_out' = Append(chunks_out, chunk)
       /\ handed' = Book(handed, chunk)
       /\ ub' = (ub \/ ReadsUninit(chunk))
  /\ reads' = 0..(N - 1)
  /\ pc' = "idle"
  /\ last_next' = "some"
  /\ UNCHANGED <<N, buffer, needs_dropping, iterator, x, item, phase, stored>>
  /\ UNCHANGED <<destroyed, source_finalized, drop_runs>>
  /\ none_view' = <<>>
  /\ UNCHANGED <<pulled, nones, calls, src0, entry_count, call_pulls,
                 call_items, prev_next, forecast>>

----------------------------------------------------------------------------
\* Chunks::size_hint and ExactSizeIterator::len

\* Variant: the bounds are rounded up.
SizeHintCeil(n, h) ==
  [lower |-> (h.lower + n - 1) \div n,
   upper |-> IF h.upper = <<>> THEN <<>> ELSE <<(h.upper[1] + n - 1) \div n>>]

\* (lower / N, upper.map(|x| x / N)), for N > 0
SizeHint(n, h) ==
  [lower |-> h.lower \div n,
   upper |-> IF h.upper = <<>> THEN <<>> ELSE <<h.upper[1] \div n>>]

\* size_hint(): the source is asked, then both bounds are divided by N; the
\* division panics when N = 0.
SizeHintCall ==
  /\ phase = "live" /\ pc = "idle"
  /\ \E h \in SourceHints(iterator) :
       IF N = 0
         THEN /\ ret' = Ret("size_hint", "panic", <<>>, <<h.lower>> \o h.upper)
              /\ phase' = "unwinding"
         ELSE /\ ret' = Ret("size_hint", "value",
                            <<SizeHint(N, h).lower>> \o SizeHint(N, h).upper,
                            <<h.lower>> \o h.upper)
              /\ phase' = phase
  /\ forecast' = [op |-> "size_hint", val |-> ret'.val,
                  chunks |-> Len(chunks_out), nones |-> nones]
  /\ reads' = {}
  /\ UNCHANGED <<N, buffer, needs_dropping, iterator, pc, x, item, stored>>
  /\ UNCHANGED ledger
  /\ UNCHANGED history

\* Variant: the count is rounded up.
ExactLenCeil(n, k) == (k + n - 1) \div n

\* self.iterator.len() / N, for N > 0
ExactLen(n, k) == k \div n

\* len(), for a source that reports its exact remaining count.
LenCall ==
  /\ phase = "live" /\ pc = "idle"
  /\ LET k == Remaining(iterator) IN
       IF N = 0
         THEN /\ ret' = Ret("len", "panic", <<>>, <<k>>)
              /\ phase' = "unwinding"
         ELSE /\ ret' = Ret("len", "value", <<ExactLen(N, k)>>, <<k>>)
              /\ phase' = phase
  /\ forecast' = [op |-> "len", val |-> ret'.val,
                  chunks |-> Len(chunks_out), nones |-> nones]
  /\ reads' = {}
  /\ UNCHANGED <<N, buffer, needs_dropping, iterator, pc, x, item, stored>>
  /\ UNCHANGED ledger
  /\ UNCHANGED history

----------------------------------------------------------------------------
\* Chunks::currently_stored

\* Variant: the view covers the whole buffer.
StoredViewAll(buf, k) == Slice(buf, N)

\* &self.buffer[..self.needs_dropping], read as a &[T]
StoredView(buf, k) == Slice(buf, k)

CurrentlyStored ==
  /\ phase = "live" /\ pc = "idle"
  /\ LET view == StoredView(buffer, needs_dropping) IN
       /\ ret' = Ret("currently_stored", "value", view, <<>>)
       /\ reads' = {i - 1 : i \in DOMAIN view}
       /\ ub' = (ub \/ ReadsUninit(view))
  /\ UNCHANGED chunker
  /\ UNCHANGED stored
  /\ UNCHANGED <<handed, destroyed, source_finalized, drop_runs>>
  /\ UNCHANGED history
  /\ UNCHANGED forecast

----------------------------------------------------------------------------
\* Chunks::into_stored and Drop::drop

\* Variant: the take(needs_dropping) is missing.
TakenSlotsAll(k) == 0..(N - 1)

\* stored.iter_mut().enumerate().take(k): the positions into_stored fills.
TakenSlots(k) == {i \in 0..(N - 1) : i < k}

\* The array into_stored builds: [NONE; N], then Some(buffer[x].read()) at
\* the taken positions.
StoredArray(buf, k) ==
  [i \in 1..N |-> IF (i - 1) \in TakenSlots(k) THEN <<buf[i - 1]>> ELSE <<>>]

\* The values a sequence of Option<T> holds, in order.
RECURSIVE Present(_)
Present(s) == IF s = <<>> THEN <<>> ELSE Head(s) \o Present(Tail(s))

\* Variant: Drop::drop destroys every slot of the buffer.
DropSlotsAll(k) == 0..(N - 1)

\* Drop::drop: for x in 0..self.needs_dropping, the slot is read and the
\* value dropped.
DropSlots(k) == 0..(k - 1)

\* The slots of a set, as a sequence in slot order (sets used are prefixes).
SlotValues(buf, S) == [i \in 1..Cardinality(S) |-> buf[i - 1]]

\* Variant: self is not wrapped in ManuallyDrop, so when into_stored returns
\* Drop::drop and the drop glue run on top of the explicit drop_in_place.
IntoStoredNoManuallyDrop ==
  /\ phase = "live" /\ pc = "idle"
  /\ LET arr == [i \in 1..N |-> IF i <= needs_dropping THEN <<buffer[i - 1]>> ELSE <<>>]
         vals == Slice(buffer, needs_dropping) IN
       /\ stored' = arr
       /\ ret' = Ret("into_stored", "value", vals, <<>>)
       /\ handed' = Book(handed, vals)
       /\ destroyed' = Book(destroyed, vals)
       /\ ub' = (ub \/ ReadsUninit(vals))
       /\ reads' = {i - 1 : i \in DOMAIN vals}
  /\ source_finalized' = source_finalized + 2
  /\ drop_runs' = drop_runs + 1
  /\ phase' = "consumed"
  /\ UNCHANGED <<N, buffer, needs_dropping, iterator, pc, x, item>>
  /\ UNCHANGED history
  /\ UNCHANGED forecast

\* into_stored(self): self is wrapped in ManuallyDrop, so neither Drop::drop
\* nor the drop glue of the fields runs; the source is dropped in place.
IntoStored ==
  /\ phase = "live" /\ pc = "idle"
  /\ LET arr == StoredArray(buffer, needs_dropping) IN
       /\ stored' = arr
       /\ ret' = Ret("into_stored", "value", Present(arr), <<>>)
       /\ handed' = Book(handed, Present(arr))
       /\ ub' = (ub \/ ReadsUninit(Present(arr)))
       /\ reads' = {i - 1 : i \in {j \in DOMAIN arr : arr[j] # <<>>}}
  /\ source_finalized' = source_finalized + 1
  /\ phase' = "consumed"
  /\ UNCHANGED <<N, buffer, needs_dropping, iterator, pc, x, item>>
  /\ UNCHANGED <<destroyed, drop_runs>>
  /\ UNCHANGED history
  /\ UNCHANGED forecast

\* The adapter goes out of scope (or the stack unwinds through it):
\* Drop::drop destroys slots 0..needs_dropping, then the drop glue drops the
\* fields, the source among them.
Drop ==
  /\ phase \in {"live", "unwinding"} /\ pc = "idle"
  /\ LET vals == SlotValues(buffer, DropSlots(needs_dropping)) IN
       /\ destroyed' = Book(destroyed, vals)
       /\ ub' = (ub \/ ReadsUninit(vals))
  /\ reads' = DropSlots(needs_dropping)
  /\ drop_runs' = drop_runs + 1
  /\ source_finalized' = source_finalized + 1
  /\ phase' = "dropped"
  /\ UNCHANGED <<N, buffer, needs_dropping, iterator, pc, x, item, ret, stored>>
  /\ UNCHANGED handed
  /\ UNCHANGED history
  /\ UNCHANGED forecast

----------------------------------------------------------------------------
Next ==
  \/ NextCall
  \/ NextPull
  \/ NextPullPanic
  \/ NextWrite
  \/ NextInc
  \/ NextReset
  \/ NextReturn
  \/ SizeHintCall
  \/ LenCall
  \/ CurrentlyStored
  \/ IntoStored
  \/ Drop

Spec == Init /\ [][Next]_vars

----------------------------------------------------------------------------
\* Helpers of the properties.

\* A sequence of chunks laid end to end.
RECURSIVE Flatten(_)
Flatten(cs) == IF cs = <<>> THEN <<>> ELSE Head(cs) \o Flatten(Tail(cs))

\* The items of a sequence, as a set.
Range(s) == {s[i] : i \in DOMAIN s}

\* The sequence S the source yields before it first yields nothing.
S0 == Run(src0)

\* The first None has just been returned and no next() call was made since.
AtFirstNone == N >= 1 /\ nones = 1 /\ last_next = "none"

\* q is the floor of a / n (n >= 1), said without the division operator.
IsFloorDiv(q, a, n) == q * n <= a /\ a < (q + 1) * n

----------------------------------------------------------------------------
\* C1: partition and order. For N >= 1, when next() has been called until it
\* first returned None, exactly |S| div N chunks were returned, each of N
\* items, the live slots hold |S| mod N items, and the chunks in order
\* followed by the live slots are S item for item; an into_stored taken at
\* that point returns those |S| mod N items as its present entries, so that
\* chunks followed by the present entries are S.
C1_Partition ==
  AtFirstNone =>
    /\ IsFloorDiv(Len(chunks_out), Len(S0), N)
    /\ \A i \in DOMAIN chunks_out : Len(chunks_out[i]) = N
    /\ needs_dropping = Len(S0) - N * Len(chunks_out)
    /\ Flatten(chunks_out) \o Slice(buffer, needs_dropping) = S0
    /\ phase = "consumed" =>
         /\ Len(Present(stored)) = Len(S0) % N
         /\ Flatten(chunks_out) \o Present(stored) = S0

\* Two chunks and a leftover were taken from a source, with N >= 2.
C1_Witness ==
  /\ AtFirstNone /\ phase = "consumed" /\ N >= 2
  /\ Len(chunks_out) >= 2 /\ Len(Present(stored)) >= 1

\* C2: exactly-once ownership. No slot without a value is ever read as a
\* value; no item is handed out or destroyed more than once in total; only
\* pulled items are handed out or destroyed; and once the adapter has ended
\* (into_stored or Drop), every pulled item was either handed to the caller
\* once or destroyed once.
C2_ExactlyOnce ==
  /\ ~ub
  /\ \A v \in Items : handed[v] + destroyed[v] <= 1
  /\ \A v \in Items : handed[v] + destroyed[v] >= 1 => v \in Range(pulled)
  /\ phase \in {"consumed", "dropped"} =>
       \A v \in Range(pulled) : handed[v] + destroyed[v] = 1

\* The adapter was dropped after a chunk hand-out and a None that left a
\* live slot: some items went to the caller, one was destroyed by Drop.
C2_Witness ==
  /\ phase = "dropped" /\ last_next = "none"
  /\ Len(chunks_out) >= 1 /\ needs_dropping >= 1
  /\ \E v \in Items : destroyed[v] = 1
  /\ \E v \in Items : handed[v] = 1

\* C3 as stated: after a next() call returned None, no later next() call
\* returns a chunk, whatever the source.
C3_NoneForEver == ~(nones >= 1 /\ last_next = "some")

\* C3, amended: when the source is fused (it yields nothing for ever once it
\* yielded nothing), after a next() call returned None no later next() call
\* returns a chunk.
C3_NoneForEverFused == Fused(src0) => ~(nones >= 1 /\ last_next = "some")

\* Three calls in a row returned None on a fused source that left a live slot.
C3_Witness ==
  /\ Fused(src0) /\ N >= 2 /\ nones >= 3 /\ last_next = "none"
  /\ needs_dropping >= 1

\* C4: shape of into_stored's result. The array has length N, position i
\* holds Some(value of slot i) for i < needs_dropping and None from
\* needs_dropping on, and only slots below needs_dropping were read.
C4_IntoStoredShape ==
  phase = "consumed" =>
    /\ Len(stored) = N
    /\ \A i \in 0..(N - 1) :
         IF i < needs_dropping
           THEN stored[i + 1] = <<buffer[i]>>
           ELSE stored[i + 1] = <<>>
    /\ \A i \in reads : i < needs_dropping

\* into_stored was taken with one live slot while a later slot still held
\* the bits of an item handed out before.
C4_Witness ==
  /\ phase = "consumed" /\ N >= 2
  /\ needs_dropping >= 1 /\ needs_dropping < N
  /\ buffer[needs_dropping] # Uninit

\* C5: currently_stored is a pure observation. A call returns the values of
\* slots 0..needs_dropping-1 in slot order and changes neither the adapter
\* (slots, live count, source position), nor the ledger, nor the history;
\* so the operations that follow behave as if it had not been called.
C5_CurrentlyStoredPure ==
  [][(ret'.op = "currently_stored" /\ ret.op # "currently_stored") =>
       /\ Len(ret'.val) = needs_dropping
       /\ \A i \in 0..(needs_dropping - 1) : ret'.val[i + 1] = buffer[i]
       /\ UNCHANGED <<chunker, stored, ledger, history, forecast>>]_vars

\* currently_stored returned two live items.
C5_Witness ==
  /\ ret.op = "currently_stored" /\ Len(ret.val) >= 2
  /\ pc = "idle" /\ phase = "live"

\* C6: bound reporting is floor division, for N >= 1. size_hint returns the
\* source's lower bound divided by N rounded down, and the source's upper
\* bound divided by N rounded down, or no upper bound when the source reports
\* none; len returns the source's exact remaining count divided by N rounded
\* down.
C6_FloorBounds ==
  (ret.op \in {"size_hint", "len"} /\ ret.kind = "value") =>
    /\ Len(ret.val) = Len(ret.src)
    /\ \A i \in DOMAIN ret.val : IsFloorDiv(ret.val[i], ret.src[i], N)

\* size_hint answered for a source whose bounds are not multiples of N: the
\* trailing partial group was not counted.
C6_Witness ==
  /\ ret.op = "size_hint" /\ ret.kind = "value" /\ N >= 2
  /\ Len(ret.val) = 2
  /\ ret.val[1] >= 1 /\ ret.src[1] % N # 0
  /\ ret.val[2] >= 1 /\ ret.src[2] % N # 0

\* C7: terminal paths. An adapter is ended by into_stored or by Drop, never
\* by both; the source is finalized exactly once on either path and not
\* before; after into_stored Drop::drop has not run and the adapter destroyed
\* nothing; after Drop exactly the values of slots 0..needs_dropping-1 were
\* destroyed; items never pulled are neither handed out nor destroyed.
C7_TerminalPaths ==
  /\ phase \in {"live", "unwinding"} =>
       /\ source_finalized = 0 /\ drop_runs = 0
       /\ \A v \in Items : destroyed[v] = 0
  /\ phase = "consumed" =>
       /\ source_finalized = 1 /\ drop_runs = 0
       /\ \A v \in Items : destroyed[v] = 0
  /\ phase = "dropped" =>
       /\ source_finalized = 1 /\ drop_runs = 1
       /\ ret.op # "into_stored"
       /\ \A v \in Items : destroyed[v] = Count(v, Slice(buffer, needs_dropping))
  /\ \A v \in Items \ Range(pulled) : handed[v] = 0 /\ destroyed[v] = 0

\* into_stored ended an adapter that had a live slot and an unpulled item.
C7_Witness ==
  /\ phase = "consumed" /\ needs_dropping >= 1
  /\ \E i \in DOMAIN iterator : iterator[i] # NoItem

\* C8: the leftover is empty except after exhaustion. Between operations,
\* right after creation and right after a next() call that returned a chunk
\* the live slots are empty; they are non-empty only when the most recent
\* next() call returned None.
C8_LeftoverOnlyAfterNone ==
  /\ (pc = "idle" /\ last_next \in {"init", "some"}) =>
       Slice(buffer, needs_dropping) = <<>>
  /\ (pc = "idle" /\ phase = "live" /\ Slice(buffer, needs_dropping) # <<>>) =>
       last_next = "none"

\* A chunk was just handed out after an earlier call had left a live slot.
C8_Witness ==
  /\ pc = "idle" /\ last_next = "some" /\ nones >= 1 /\ N >= 2
  /\ needs_dropping = 0

\* C9: N = 0. No next() call pulls from the source or returns None: every
\* call that returned gave the empty chunk, and the source is where it was
\* when the adapter was created.
C9_ZeroSize ==
  N = 0 =>
    /\ pulled = <<>> /\ iterator = src0
    /\ pc \in {"idle", "reset", "ret"}
    /\ nones = 0
    /\ last_next \in {"init", "running", "some"}
    /\ \A i \in DOMAIN chunks_out : chunks_out[i] = <<>>
    /\ Len(chunks_out) = (IF last_next = "running" THEN calls - 1 ELSE calls)

\* With N = 0, three calls returned over a source that has an item to give.
C9_Witness ==
  /\ N = 0 /\ Len(chunks_out) >= 3 /\ pc = "idle"
  /\ src0 # <<>> /\ Head(src0) # NoItem

\* C10: no operation of the adapter panics by itself, for any chunk size
\* 0..MaxN: every call of next, size_hint, len, currently_stored,
\* into_stored and Drop returns normally (a panic of the source is not the
\* adapter's).
C10_NoPanic == ret.kind # "panic"

\* The values the adapter owns: pulled, not handed to the caller, not
\* destroyed.
Owned == {v \in Range(pulled) : handed[v] = 0 /\ destroyed[v] = 0}

\* The values of the live slots, as a set.
LiveValues == Range(Slice(buffer, needs_dropping))

----------------------------------------------------------------------------
\* C11: live-count range, for N >= 1. needs_dropping is in 0..N at every
\* step; it is below N between operations; it equals N only inside next(),
\* right after the last slot was written and counted and before the reset,
\* and it is 0 between the reset and the hand-out.
C11_LiveCountRange ==
  N >= 1 =>
    /\ 0 <= needs_dropping /\ needs_dropping <= N
    /\ pc = "idle" => needs_dropping < N
    /\ pc = "ret" => needs_dropping = 0
    /\ needs_dropping = N =>
         /\ pc = "reset" /\ x = N
         /\ buffer[N - 1] = item /\ item = pulled[Len(pulled)]

\* Inside next(), all N >= 2 slots are counted and the reset is still to come.
C11_Witness == N >= 2 /\ needs_dropping = N /\ pc = "reset"

\* C12 as stated: at every step of next() the values of the slots below
\* needs_dropping are exactly the values the adapter owns.
C12_ExactAtEveryStep ==
  phase \in {"live", "unwinding"} => LiveValues = Owned

\* C12, amended. At every step every slot below needs_dropping holds a value
\* the adapter owns (constructed, not handed out, not destroyed), each in one
\* slot only. The live slots are exactly the owned values between operations,
\* at every source pull (where a panic can tear the adapter down) and before
\* the reset; after a pull the pulled item is owned but not yet in a slot,
\* after the write its slot is not yet counted, and between the reset and
\* the hand-out the N values of the chunk are owned while the count is 0. A
\* teardown after a source panic destroys each value constructed and not
\* handed out once and reads no slot without a value.
C12_LivePrefix ==
  /\ phase \in {"live", "unwinding"} =>
       /\ \A i \in 0..(needs_dropping - 1) : buffer[i] \in Owned
       /\ \A i, j \in 0..(needs_dropping - 1) : i # j => buffer[i] # buffer[j]
       /\ pc \in {"idle", "pull", "reset"} => LiveValues = Owned
       /\ pc = "write" => (item \notin LiveValues /\ LiveValues \cup {item} = Owned)
       /\ pc = "inc" =>
            /\ buffer[needs_dropping] = item /\ item \notin LiveValues
            /\ LiveValues \cup {item} = Owned
       /\ pc = "ret" => (needs_dropping = 0 /\ Range(Slice(buffer, N)) = Owned)
  /\ (phase = "dropped" /\ last_next = "panic") =>
       /\ ~ub
       /\ Owned = {}
       /\ \A v \in Range(pulled) : handed[v] + destroyed[v] = 1
       /\ \A v \in Items : destroyed[v] = Count(v, Slice(buffer, needs_dropping))

\* The source panicked in the middle of a fill, after a chunk had been
\* handed out, and the unwinding dropped the adapter with a live slot.
C12_Witness ==
  /\ phase = "dropped" /\ last_next = "panic"
  /\ Len(chunks_out) >= 1 /\ needs_dropping >= 1
  /\ buffer[needs_dropping] # Uninit

\* C13 as stated: whatever the source, when a next() call returns None after
\* a call that returned None, the live slots are the ones the first None of
\* the run left, and an into_stored that follows returns them.
C13_LeftoverUnchanged ==
  (last_next = "none" /\ prev_next = "none") =>
    /\ Slice(buffer, needs_dropping) = none_view
    /\ phase = "consumed" => Present(stored) = none_view

\* C13, amended. After a next() call returned None leaving k live slots,
\* further next() calls that return None keep those k values as the first k
\* live slots, in order; when the source is fused the live slots are
\* unchanged (the same k values and no more), and an into_stored that
\* follows returns exactly those k values as its present entries.
C13_LeftoverStable ==
  (N >= 1 /\ last_next = "none") =>
    /\ Len(none_view) <= needs_dropping
    /\ Slice(buffer, Len(none_view)) = none_view
    /\ Fused(src0) =>
         /\ Slice(buffer, needs_dropping) = none_view
         /\ phase = "consumed" => Present(stored) = none_view

\* On a fused source three calls returned None over a leftover of two items
\* and into_stored was then taken.
C13_Witness ==
  /\ Fused(src0) /\ nones >= 3 /\ last_next = "none" /\ prev_next = "none"
  /\ Len(none_view) >= 2 /\ phase = "consumed"

\* C14 as stated: when a next() call ends because the source yielded no
\* item, needs_dropping equals the number of slots that call filled.
C14_FreshFill == last_next = "none" => needs_dropping = call_items

\* C14, amended. Each next() call continues the fill at slot index
\* needs_dropping, which is 0 on entry unless the previous call returned
\* None; when a call ends because the source yielded no item,
\* needs_dropping equals its value on entry plus the number of slots filled
\* during that call, a value in 0..N-1.
C14_FillContinues ==
  /\ pc = "pull" => (x = needs_dropping /\ x = entry_count + call_items)
  /\ entry_count > 0 => prev_next = "none"
  /\ last_next = "none" =>
       /\ needs_dropping = entry_count + call_items
       /\ 0 <= needs_dropping /\ needs_dropping <= N - 1

\* A call entered with a live slot filled one more and ended on a source
\* that yielded nothing.
C14_Witness ==
  /\ last_next = "none" /\ pc = "idle"
  /\ entry_count >= 1 /\ call_items >= 1

\* C15: source consumption per call. A next() call fills slots in increasing
\* index order from the live count it had on entry, one pulled item per
\* slot, in pull order; it never pulls when slot N-1 is filled, so it pulls
\* at most N - entry items; the pull that yields nothing is its last; a call
\* that returns a chunk has pulled exactly N - entry items.
C15_PullsPerCall ==
  /\ call_items <= N - entry_count
  /\ pc = "pull" => (x < N /\ x = entry_count + call_items)
  /\ pc \in {"write", "inc"} =>
       (x = entry_count + call_items - 1 /\ item = pulled[Len(pulled)])
  /\ last_next \in {"init", "running", "panic"} => call_pulls = call_items
  /\ last_next = "none" => call_pulls = call_items + 1
  /\ last_next = "some" =>
       (call_pulls = call_items /\ call_items = N - entry_count)
  /\ LET done == IF pc = "write" THEN call_items - 1 ELSE call_items IN
       \A j \in 1..done :
         buffer[entry_count + j - 1] = pulled[Len(pulled) - call_items + j]

\* A call entered with one live slot pulled the N - 1 >= 2 missing items and
\* returned a chunk.
C15_Witness ==
  /\ last_next = "some" /\ pc = "idle" /\ N >= 3
  /\ entry_count = 1 /\ call_items = N - 1

\* C16: no pulled item is lost or reordered, for any source. Between
\* operations the chunks returned so far, laid end to end, followed by the
\* live slots are the items pulled so far, in pull order.
C16_NothingLost ==
  pc = "idle" => Flatten(chunks_out) \o Slice(buffer, needs_dropping) = pulled

\* A source yielded again after having yielded nothing, and the chunk then
\* returned begins with the item left over from before.
C16_Witness ==
  /\ pc = "idle" /\ last_next = "some" /\ N >= 2
  /\ ~Fused(src0) /\ nones >= 1 /\ entry_count >= 1
  /\ Len(chunks_out) = 1 /\ chunks_out[1][1] = pulled[1]

\* C17: reported bounds predict production, for N >= 1 and a fused source.
\* With C the number of chunks returned since size_hint or len was asked:
\* until the next None, C does not exceed the reported upper bound; at the
\* first None after, C is at least the reported lower bound, at most the
\* reported upper bound when there is one, and equal to what len reported.
C17_BoundsPredict ==
  (N >= 1 /\ Fused(src0) /\ forecast.op \in {"size_hint", "len"}) =>
    LET C == Len(chunks_out) - forecast.chunks IN
      /\ (nones = forecast.nones /\ Len(forecast.val) = 2) => C <= forecast.val[2]
      /\ (nones = forecast.nones /\ forecast.op = "len") => C <= forecast.val[1]
      /\ (nones = forecast.nones + 1 /\ last_next = "none") =>
           /\ forecast.val[1] <= C
           /\ Len(forecast.val) = 2 => C <= forecast.val[2]
           /\ forecast.op = "len" => C = forecast.val[1]

\* len reported two chunks on a fused source, and two chunks came before the
\* first None, which left a live slot.
C17_Witness ==
  /\ N >= 2 /\ Fused(src0) /\ forecast.op = "len" /\ forecast.val = <<2>>
  /\ nones = forecast.nones + 1 /\ last_next = "none"
  /\ Len(chunks_out) - forecast.chunks = 2 /\ needs_dropping >= 1

====
